---- MODULE Spec2Model ----
(***************************************************************************)
(* Model of the credential-rotating, paginated API-call engine of          *)
(* youtube_finder.py: KeyManager (load, key, rotate), check_key_quotas,    *)
(* api_call, and the two paginators search_youtube_all and                 *)
(* fetch_all_channel_videos, as driven by main().                          *)
(*                                                                         *)
(* The program is single-threaded; every loop iteration of the source is   *)
(* one action.  The remote API is external: the outcome of every request   *)
(* is a nondeterministic choice.                                           *)
(***************************************************************************)
EXTENDS Integers, Sequences, FiniteSets, TLC

(* ---- bounds ---- *)
MaxLines == 2
MaxPages == 3

(* ---- program constants ---- *)
maxResults == 50

\* None / a missing dictionary key, for string-valued data
None == "None"
Absent == "Absent"

\* an optional integer or record: <<>> is None, <<x>> is the value x
Nothing == <<>>
Some(x) == <<x>>

VARIABLES
  pc,             \* position of the single thread of control
  keys, idx,      \* KeyManager.keys, KeyManager.idx
  i, first_valid, \* locals of check_key_quotas
  probeLog,       \* status line printed for each probed key, in order
  caller,         \* who is inside api_call
  pt,             \* continuation token bound into the request builder
  params,         \* query parameters the request builder binds
  attempts,       \* local of api_call
  resp,           \* value returned by api_call to its caller
  callStart,      \* history: idx when the current api_call began
  reqs,           \* history: requests issued by the current api_call
  outs,           \* history: remote outcome of each of those requests
  rots,           \* history: rotate() invocations of the current api_call
  reply,          \* history: what the remote sent for the latest request
  all_items,      \* local of search_youtube_all
  videos,         \* local of fetch_all_channel_videos
  page_token,     \* local of both paginators
  total_reported, \* local of search_youtube_all
  fetched,        \* history: item lists of the pages the paginator got
  query,          \* argument of the paginator: query, or channel_id
  first_total,    \* history: totalResults of the first search page's reply
  lastToken,      \* history: nextPageToken of the latest page's reply
  all_vids,       \* mode_parse: the videos handed to classify_videos
  longs,          \* classify_videos: entries longer than 60 s
  shorts,         \* classify_videos: entries of at most 60 s
  replied,        \* history: the items of the chunks that were answered
  iso,            \* argument of parse_iso_duration
  secs,           \* result of parse_iso_duration
  pagFull         \* history, kept from the initial state of SpecPages on:
                  \* every page so far was returned by the len(keys)-th
                  \* request of its call (never TRUE under Spec)

vars == <<pc, keys, idx, i, first_valid, probeLog, caller, pt, params,
          attempts, resp, callStart, reqs, outs, rots, reply, all_items,
          videos, page_token, total_reported, fetched, query, first_total,
          lastToken, pagFull, all_vids, longs, shorts, replied, iso, secs>>

probeVars == <<i, first_valid, probeLog>>
callVars  == <<caller, pt, params, attempts, resp, callStart, reqs, outs, rots,
               reply>>
pageVars  == <<all_items, videos, page_token, total_reported, fetched, query,
               first_total, lastToken, pagFull>>
clsVars   == <<all_vids, longs, shorts, replied, iso, secs>>

(* ---------------------------------------------------------------------- *)
(* KeyManager                                                              *)
(* ---------------------------------------------------------------------- *)

\* lines of api_keys.txt, as sequences of characters (without the newline)
FileLines == { <<>>, <<" ">>, <<"a">>, <<" ", "b", " ">> }

Files == UNION { [1..k -> FileLines] : k \in 0..MaxLines }

RECURSIVE lstrip(_)
lstrip(s) == IF s # <<>> /\ Head(s) = " " THEN lstrip(Tail(s)) ELSE s

RECURSIVE rstrip(_)
rstrip(s) == IF s # <<>> /\ s[Len(s)] = " "
             THEN rstrip(SubSeq(s, 1, Len(s) - 1)) ELSE s

\* str.strip()
strip(s) == rstrip(lstrip(s))

\* [line.strip() for line in f if line.strip()]
RECURSIVE StrippedLines(_)
StrippedLines(f) ==
  IF f = <<>> THEN <<>>
  ELSE IF strip(Head(f)) # <<>>
       THEN <<strip(Head(f))>> \o StrippedLines(Tail(f))
       ELSE StrippedLines(Tail(f))

\* KeyManager._load on an existing file: the key list (empty: sys.exit(1))
_load(f) == StrippedLines(f)

\* KeyManager.key (idx is 0-based as in the source)
key(ks, ix) == ks[ix + 1]

\* rotate() that leaves the cursor where it is
rotate_stay(ks, ix) == ix

\* rotate() without the wrap-around
rotate_nomod(ks, ix) == ix + 1

\* rotate() that goes back to the first key
rotate_reset(ks, ix) == 0

\* rotate() that advances by two positions
rotate_skip(ks, ix) == (ix + 2) % Len(ks)

\* KeyManager.rotate: the new value of idx
rotate(ks, ix) == (ix + 1) % Len(ks)

(* ---------------------------------------------------------------------- *)
(* The remote API                                                          *)
(* ---------------------------------------------------------------------- *)

HttpCodes == {400, 403, 404, 429, 500}

\* what one remote call can end in: a reply, an HttpError, another exception
Outcomes == {[kind |-> "ok", code |-> 200], [kind |-> "exc", code |-> 0]}
            \cup {[kind |-> "http", code |-> c] : c \in HttpCodes}

\* a retry list that forgets the bad-credential status
IsRotateCode_no400(code) == code \in {403, 429}

\* a retry list that retries every HTTP error
IsRotateCode_any(code) == code \in HttpCodes

\* api_call: "if code in (403, 429, 400)"
IsRotateCode(code) == code \in {403, 429, 400}

\* the failure classes tied to credential health (quota/forbidden,
\* rate-limited, bad credential), as the remote reports them
CredentialClass(code) == code = 403 \/ code = 429 \/ code = 400

ItemA == [videoId |-> "a", title |-> "A", publishedAt |-> "d1"]
ItemB == [videoId |-> "b", title |-> "B", publishedAt |-> Absent]
ItemP == [videoId |-> None, title |-> "P", publishedAt |-> "d2"]

\* the item lists a reply can carry: none, a full page of maxResults
\* items, and a short page whose first item has no videoId
Page50 == [k \in 1..maxResults |-> IF k % 2 = 1 THEN ItemA ELSE ItemB]
Page13 == [k \in 1..13 |-> IF k = 1 THEN ItemP
                           ELSE IF k % 2 = 1 THEN ItemB ELSE ItemA]

PageItems == { <<>>, Page50, Page13 }

Tokens == {"T1", "T2"}

\* pageInfo.totalResults; the code only prints it
Totals == {"7", Absent}

\* a reply of the remote: a non-empty dictionary; a token, when present, is
\* a non-empty string
Responses == [items : PageItems,
              nextPageToken : Tokens \cup {None},
              totalResults : Totals]

\* videos().list: the durations the remote holds, by video id
PT30S == <<"P", "T", "3", "0", "S">>
PT1M30S == <<"P", "T", "1", "M", "3", "0", "S">>
PT1M1S == <<"P", "T", "1", "M", "1", "S">>
PT1M == <<"P", "T", "1", "M">>

RemoteDuration(id) ==
  CASE id % 4 = 1 -> PT30S
    [] id % 4 = 2 -> PT1M30S
    [] id % 4 = 3 -> PT1M1S
    [] id % 4 = 0 -> PT1M

\* one item of a videos().list reply
VideoItem(id) == [id |-> id, title |-> "t", duration |-> Some(RemoteDuration(id))]

Reverse(sq) == [k \in 1..Len(sq) |-> sq[Len(sq) + 1 - k]]

\* the replies to videos().list(id=ids): every video in the order asked,
\* every video but the first, every video with the first item lacking its
\* duration, every video in the opposite order
VideoReplies(ids) ==
  LET full == [k \in 1..Len(ids) |-> VideoItem(ids[k])] IN
  { [items |-> full],
    [items |-> Tail(full)],
    [items |-> [k \in 1..Len(full) |->
                 IF k = 1 THEN [full[k] EXCEPT !.duration = Nothing]
                 ELSE full[k]]],
    [items |-> Reverse(full)] }

\* no classification and no parse has been started
ClsIdle ==
  /\ all_vids = <<>>
  /\ longs = <<>>
  /\ shorts = <<>>
  /\ replied = <<>>
  /\ iso = Nothing
  /\ secs = 0

\* what the user can search for, and the channels that can be parsed
Queries == {"cats"}
ChannelIds == {"UC1"}

\* no request builder is bound
NoParams == [endpoint |-> "none"]

\* search_youtube_all.req: dict(part=..., maxResults=50, q=query, type=...)
\* (the optional filters left at 'any' / unset)
SearchParams(q) == [endpoint |-> "search.list", part |-> "snippet",
                    maxResults |-> maxResults, q |-> q, type |-> "video"]

\* fetch_all_channel_videos.req: dict(part=..., channelId=channel_id, ...)
ChannelParams(c) == [endpoint |-> "search.list", part |-> "snippet",
                     channelId |-> c, type |-> "video",
                     maxResults |-> maxResults, order |-> "date"]

\* get_channel_stats: channels().list(part="snippet,statistics", id=...)
SingleParams == [endpoint |-> "channels.list", part |-> "snippet,statistics"]

(* ---------------------------------------------------------------------- *)
(* Initial state: the process has started, nothing is loaded yet           *)
(* ---------------------------------------------------------------------- *)

Init ==
  /\ pc = "load"
  /\ keys = <<>>
  /\ idx = 0
  /\ i = 0
  /\ first_valid = Nothing
  /\ probeLog = <<>>
  /\ caller = None
  /\ pt = None
  /\ params = NoParams
  /\ attempts = 0
  /\ resp = Nothing
  /\ callStart = 0
  /\ reqs = <<>>
  /\ outs = <<>>
  /\ rots = 0
  /\ reply = Nothing
  /\ all_items = <<>>
  /\ videos = <<>>
  /\ page_token = None
  /\ total_reported = None
  /\ fetched = <<>>
  /\ query = None
  /\ first_total = None
  /\ lastToken = None
  /\ pagFull = FALSE
  /\ ClsIdle

\* km = KeyManager(API_KEYS_FILE); the file may not exist
Load ==
  /\ pc = "load"
  /\ \E found \in BOOLEAN, f \in Files :
       IF ~found \/ _load(f) = <<>>
       THEN /\ pc' = "exited"
            /\ UNCHANGED <<keys, idx>>
       ELSE /\ keys' = _load(f)
            /\ idx' = 0
            /\ pc' = "probe"
  /\ UNCHANGED <<probeVars, callVars, pageVars>>
  /\ UNCHANGED clsVars

(* ---------------------------------------------------------------------- *)
(* check_key_quotas                                                        *)
(* ---------------------------------------------------------------------- *)

\* the status line of one probe call
ProbeStatus(o) ==
  IF o.kind = "ok" THEN "Active"
  ELSE IF o.kind = "exc" THEN "Error"
  ELSE IF o.code \in {403, 429} THEN "Quota exhausted"
  ELSE IF o.code = 400 THEN "Invalid key"
  ELSE "HTTP"

\* a probe loop in which the last active key wins
ProbeKey_lastWins ==
  /\ pc = "probe"
  /\ i < Len(keys)
  /\ \E o \in Outcomes :
       /\ first_valid' = IF o.kind = "ok" THEN Some(i) ELSE first_valid
       /\ probeLog' = Append(probeLog, ProbeStatus(o))
  /\ i' = i + 1
  /\ UNCHANGED <<pc, keys, idx, callVars, pageVars>>
  /\ UNCHANGED clsVars

\* one iteration of "for i, api_key in enumerate(km.keys)"
ProbeKey ==
  /\ pc = "probe"
  /\ i < Len(keys)
  /\ \E o \in Outcomes :
       /\ first_valid' = IF o.kind = "ok" /\ first_valid = Nothing
                         THEN Some(i) ELSE first_valid
       /\ probeLog' = Append(probeLog, ProbeStatus(o))
  /\ i' = i + 1
  /\ UNCHANGED <<pc, keys, idx, callVars, pageVars>>
  /\ UNCHANGED clsVars

\* a probe that stops the program when no key is active
ProbeFinish_fatal ==
  /\ pc = "probe"
  /\ i = Len(keys)
  /\ IF first_valid # Nothing
     THEN idx' = first_valid[1] /\ pc' = "probed"
     ELSE idx' = idx /\ pc' = "exited"
  /\ UNCHANGED <<keys, probeVars, callVars, pageVars>>
  /\ UNCHANGED clsVars

\* a probe that selects the last key of the pool when one is active
ProbeFinish_last ==
  /\ pc = "probe"
  /\ i = Len(keys)
  /\ IF first_valid # Nothing
     THEN idx' = Len(keys) - 1
     ELSE idx' = idx
  /\ pc' = "probed"
  /\ UNCHANGED <<keys, probeVars, callVars, pageVars>>
  /\ UNCHANGED clsVars

\* after the loop: select the starting key or warn
ProbeFinish ==
  /\ pc = "probe"
  /\ i = Len(keys)
  /\ IF first_valid # Nothing
     THEN idx' = first_valid[1]
     ELSE idx' = idx
  /\ pc' = "probed"
  /\ UNCHANGED <<keys, probeVars, callVars, pageVars>>
  /\ UNCHANGED clsVars

\* main: check_key_quotas has returned, the menu loop is entered
EnterMenu ==
  /\ pc = "probed"
  /\ pc' = "menu"
  /\ i' = 0
  /\ first_valid' = Nothing
  /\ probeLog' = <<>>
  /\ UNCHANGED <<keys, idx, callVars, pageVars>>
  /\ UNCHANGED clsVars

(* ---------------------------------------------------------------------- *)
(* api_call                                                                *)
(* ---------------------------------------------------------------------- *)

\* api_call has returned and its caller is done with the result
EndCall ==
  /\ caller' = None
  /\ pt' = None
  /\ params' = NoParams
  /\ attempts' = 0
  /\ resp' = Nothing
  /\ callStart' = 0
  /\ reqs' = <<>>
  /\ outs' = <<>>
  /\ rots' = 0
  /\ reply' = Nothing

\* an entry that carries the attempt count over from the previous call
BeginCall_keepAttempts(c, t, p) ==
  /\ pc' = "api"
  /\ caller' = c
  /\ pt' = t
  /\ params' = p
  /\ attempts' = attempts
  /\ resp' = Nothing
  /\ callStart' = idx
  /\ reqs' = <<>>
  /\ outs' = <<>>
  /\ rots' = 0
  /\ reply' = Nothing

\* entry of api_call(km, build_fn), build_fn binding parameters p and token t
BeginCall(c, t, p) ==
  /\ pc' = "api"
  /\ caller' = c
  /\ pt' = t
  /\ params' = p
  /\ attempts' = 0
  /\ resp' = Nothing
  /\ callStart' = idx
  /\ reqs' = <<>>
  /\ outs' = <<>>
  /\ rots' = 0
  /\ reply' = Nothing

\* a request builder that loses the token once the key has been rotated
Request_dropToken ==
  [keyIdx |-> idx, developerKey |-> key(keys, idx),
   pageToken |-> IF attempts > 0 THEN None ELSE pt, params |-> params]

\* the request of one attempt: build(developerKey=km.key()), build_fn(yt)
Request == [keyIdx |-> idx, developerKey |-> key(keys, idx),
            pageToken |-> pt, params |-> params]

ReturnPc == IF caller = "search" THEN "search_resp"
            ELSE IF caller = "channel" THEN "chan_resp"
            ELSE IF caller = "classify" THEN "classify_resp"
            ELSE "single_resp"

\* the replies the remote can give to the request of the running call
Replies == IF caller = "classify" THEN VideoReplies(params.id) ELSE Responses

\* return build_fn(yt).execute()
ApiSuccess ==
  /\ pc = "api"
  /\ attempts < Len(keys)
  /\ Len(fetched) < MaxPages
  /\ \E r \in Replies : reply' = Some(r) /\ resp' = Some(r)
  /\ reqs' = Append(reqs, Request)
  /\ outs' = Append(outs, "ok")
  /\ pc' = ReturnPc
  /\ UNCHANGED <<keys, idx, probeVars, caller, pt, params, attempts,
                 callStart, rots, pageVars>>
  /\ UNCHANGED clsVars

\* except HttpError as e
ApiHttpError ==
  /\ pc = "api"
  /\ attempts < Len(keys)
  /\ \E code \in HttpCodes :
       /\ reqs' = Append(reqs, Request)
       /\ outs' = Append(outs, IF CredentialClass(code) THEN "cred" ELSE "http")
       /\ reply' = Nothing
       /\ IF IsRotateCode(code)
          THEN /\ idx' = rotate(keys, idx)
               /\ rots' = rots + 1
               /\ attempts' = attempts + 1
               /\ UNCHANGED <<pc, resp>>
          ELSE /\ resp' = Nothing
               /\ pc' = ReturnPc
               /\ UNCHANGED <<idx, rots, attempts>>
  /\ UNCHANGED <<keys, probeVars, caller, pt, params, callStart, pageVars>>
  /\ UNCHANGED clsVars

\* except Exception as e
ApiException ==
  /\ pc = "api"
  /\ attempts < Len(keys)
  /\ reqs' = Append(reqs, Request)
  /\ outs' = Append(outs, "exc")
  /\ reply' = Nothing
  /\ resp' = Nothing
  /\ pc' = ReturnPc
  /\ UNCHANGED <<keys, idx, probeVars, caller, pt, params, attempts,
                 callStart, rots, pageVars>>
  /\ UNCHANGED clsVars

\* loop condition false: "All API keys exhausted."
ApiExhausted ==
  /\ pc = "api"
  /\ ~(attempts < Len(keys))
  /\ resp' = Nothing
  /\ pc' = ReturnPc
  /\ UNCHANGED <<keys, idx, probeVars, caller, pt, params, attempts,
                 callStart, reqs, outs, rots, reply, pageVars>>
  /\ UNCHANGED clsVars

(* ---------------------------------------------------------------------- *)
(* search_youtube_all                                                      *)
(* ---------------------------------------------------------------------- *)

\* mode_search calls search_youtube_all: locals set, first api_call entered
StartSearch ==
  /\ pc = "menu"
  /\ \E q \in Queries :
       /\ query' = q
       /\ BeginCall("search", None, SearchParams(q))
  /\ all_items' = <<>>
  /\ page_token' = None
  /\ total_reported' = None
  /\ fetched' = <<>>
  /\ first_total' = None
  /\ lastToken' = None
  /\ UNCHANGED pagFull
  /\ UNCHANGED <<keys, idx, probeVars, videos>>
  /\ UNCHANGED clsVars

\* an extend that replaces what was accumulated
extend_replace(acc, items) == items

\* all_items.extend(items)
extend(acc, items) == acc \o items

\* resp.get('pageInfo', {}).get('totalResults', '?')
TotalOf(r) == IF r.totalResults = Absent THEN "?" ELSE r.totalResults

\* a capture that takes the estimate of every page
Capture_always(tr, r) == TotalOf(r)

\* "if total_reported is None: total_reported = resp.get(...)..."
Capture(tr, r) == IF tr = None THEN TotalOf(r) ELSE tr

\* a loop that never takes a page for the last one
HasMore_always(r) == TRUE

\* a loop that goes on only while pages are full
HasMore_fullPage(r) == r.nextPageToken # None /\ Len(r.items) = maxResults

\* "page_token = resp.get('nextPageToken'); if not page_token: break"
HasMore(r) == r.nextPageToken # None

\* the loop body after "resp = api_call(km, req)"
SearchPage ==
  /\ pc = "search_resp"
  /\ IF resp = Nothing
     THEN /\ pc' = "search_ret"
          /\ UNCHANGED <<callVars, pageVars>>
     ELSE LET r == resp[1] IN
          /\ total_reported' = Capture(total_reported, r)
          /\ all_items' = extend(all_items, r.items)
          /\ fetched' = Append(fetched, r.items)
          /\ first_total' = IF fetched = <<>> THEN r.totalResults
                            ELSE first_total
          /\ lastToken' = r.nextPageToken
          /\ pagFull' = (pagFull /\ Len(reqs) = Len(keys))
          /\ page_token' = r.nextPageToken
          /\ IF HasMore(r)
             THEN BeginCall("search", r.nextPageToken, SearchParams(query))
             ELSE /\ pc' = "search_ret"
                  /\ UNCHANGED callVars
          /\ UNCHANGED <<videos, query>>
  /\ UNCHANGED <<keys, idx, probeVars>>
  /\ UNCHANGED clsVars

\* "return all_items": back in the menu loop, the locals are gone
SearchReturn ==
  /\ pc = "search_ret"
  /\ pc' = "menu"
  /\ all_items' = <<>>
  /\ page_token' = None
  /\ total_reported' = None
  /\ fetched' = <<>>
  /\ query' = None
  /\ first_total' = None
  /\ lastToken' = None
  /\ UNCHANGED pagFull
  /\ EndCall
  /\ UNCHANGED <<keys, idx, probeVars, videos>>
  /\ UNCHANGED clsVars

(* ---------------------------------------------------------------------- *)
(* fetch_all_channel_videos                                                *)
(* ---------------------------------------------------------------------- *)

\* dict(videoId=vid, title=..., publishedAt=it['snippet'].get(..., ''))
Entry(it) == [videoId |-> it.videoId, title |-> it.title,
              publishedAt |-> IF it.publishedAt = Absent THEN ""
                              ELSE it.publishedAt]

\* a loop that inserts each entry at the front
RECURSIVE VideoEntries_rev(_)
VideoEntries_rev(items) ==
  IF items = <<>> THEN <<>>
  ELSE IF Head(items).videoId # None
       THEN VideoEntries_rev(Tail(items)) \o <<Entry(Head(items))>>
       ELSE VideoEntries_rev(Tail(items))

\* "for it in resp.get('items', []): vid = ...; if vid: videos.append(...)"
RECURSIVE VideoEntries(_)
VideoEntries(items) ==
  IF items = <<>> THEN <<>>
  ELSE IF Head(items).videoId # None
       THEN <<Entry(Head(items))>> \o VideoEntries(Tail(items))
       ELSE VideoEntries(Tail(items))

StartChannel ==
  /\ pc = "menu"
  /\ \E c \in ChannelIds :
       /\ query' = c
       /\ BeginCall("channel", None, ChannelParams(c))
  /\ videos' = <<>>
  /\ page_token' = None
  /\ fetched' = <<>>
  /\ first_total' = None
  /\ lastToken' = None
  /\ UNCHANGED pagFull
  /\ UNCHANGED <<keys, idx, probeVars, all_items, total_reported>>
  /\ UNCHANGED clsVars

ChannelPage ==
  /\ pc = "chan_resp"
  /\ IF resp = Nothing
     THEN /\ pc' = "chan_ret"
          /\ UNCHANGED <<callVars, pageVars>>
     ELSE LET r == resp[1] IN
          /\ videos' = videos \o VideoEntries(r.items)
          /\ fetched' = Append(fetched, r.items)
          /\ lastToken' = r.nextPageToken
          /\ pagFull' = (pagFull /\ Len(reqs) = Len(keys))
          /\ page_token' = r.nextPageToken
          /\ IF HasMore(r)
             THEN BeginCall("channel", r.nextPageToken, ChannelParams(query))
             ELSE /\ pc' = "chan_ret"
                  /\ UNCHANGED callVars
          /\ UNCHANGED <<all_items, total_reported, query, first_total>>
  /\ UNCHANGED <<keys, idx, probeVars>>
  /\ UNCHANGED clsVars

ChannelReturn ==
  /\ pc = "chan_ret"
  /\ pc' = "menu"
  /\ videos' = <<>>
  /\ page_token' = None
  /\ fetched' = <<>>
  /\ query' = None
  /\ first_total' = None
  /\ lastToken' = None
  /\ UNCHANGED pagFull
  /\ EndCall
  /\ UNCHANGED <<keys, idx, probeVars, all_items, total_reported>>
  /\ UNCHANGED clsVars

(* ---------------------------------------------------------------------- *)
(* a single, unpaginated api_call (get_channel_stats) and the menu         *)
(* ---------------------------------------------------------------------- *)

StartSingle ==
  /\ pc = "menu"
  /\ BeginCall("single", None, SingleParams)
  /\ UNCHANGED <<keys, idx, probeVars, pageVars>>
  /\ UNCHANGED clsVars

SingleReturn ==
  /\ pc = "single_resp"
  /\ pc' = "menu"
  /\ EndCall
  /\ UNCHANGED <<keys, idx, probeVars, pageVars>>
  /\ UNCHANGED clsVars

\* choice == '0'
Exit ==
  /\ pc = "menu"
  /\ pc' = "done"
  /\ UNCHANGED <<keys, idx, probeVars, callVars, pageVars>>
  /\ UNCHANGED clsVars

Next ==
  \/ Load
  \/ ProbeKey
  \/ ProbeFinish
  \/ EnterMenu
  \/ StartSearch
  \/ SearchPage
  \/ SearchReturn
  \/ StartChannel
  \/ ChannelPage
  \/ ChannelReturn
  \/ StartSingle
  \/ SingleReturn
  \/ Exit
  \/ ApiSuccess
  \/ ApiHttpError
  \/ ApiException
  \/ ApiExhausted

Spec == Init /\ [][Next]_vars

(* ---------------------------------------------------------------------- *)
(* rotate() on its own: any pool, any starting cursor, repeated calls      *)
(* ---------------------------------------------------------------------- *)

MaxRotations == 12

\* the key lists KeyManager can be constructed with
KeyLists == { _load(f) : f \in Files } \ { <<>> }

InitRotate ==
  /\ pc = "rotate"
  /\ keys \in KeyLists
  /\ idx \in 0..(Len(keys) - 1)
  /\ callStart = idx
  /\ rots = 0
  /\ i = 0
  /\ first_valid = Nothing
  /\ probeLog = <<>>
  /\ caller = None
  /\ pt = None
  /\ params = NoParams
  /\ attempts = 0
  /\ resp = Nothing
  /\ reqs = <<>>
  /\ outs = <<>>
  /\ reply = Nothing
  /\ all_items = <<>>
  /\ videos = <<>>
  /\ page_token = None
  /\ total_reported = None
  /\ fetched = <<>>
  /\ query = None
  /\ first_total = None
  /\ lastToken = None
  /\ pagFull = FALSE
  /\ ClsIdle

\* km.rotate()
RotateStep ==
  /\ pc = "rotate"
  /\ rots < MaxRotations
  /\ idx' = rotate(keys, idx)
  /\ rots' = rots + 1
  /\ UNCHANGED <<pc, keys, probeVars, caller, pt, params, attempts, resp,
                 callStart, reqs, outs, reply, pageVars>>
  /\ UNCHANGED clsVars

NextRotate == RotateStep

SpecRotate == InitRotate /\ [][NextRotate]_vars

(* ====================================================================== *)
(* Properties                                                              *)
(* ====================================================================== *)

\* api_call has just returned to its caller
Returned == pc \in {"search_resp", "chan_resp", "single_resp"}

\* an api_call is running or has just returned
InCall == pc = "api" \/ Returned

AllCred(o) == \A j \in 1..Len(o) : o[j] = "cred"

Last(o) == o[Len(o)]

Front(o) == SubSeq(o, 1, Len(o) - 1)

\* C1: within one api_call at most n = len(keys) requests are issued, the
\* j-th request (j = 0..n-1) uses the key at index (start + j) mod n, and no
\* index is used for two requests of the call.
C1_AttemptCap ==
  InCall =>
    /\ Len(reqs) <= Len(keys)
    /\ \A j \in 1..Len(reqs) :
         /\ reqs[j].keyIdx = (callStart + (j - 1)) % Len(keys)
         /\ reqs[j].developerKey = keys[reqs[j].keyIdx + 1]
    /\ \A j, k \in 1..Len(reqs) : j # k => reqs[j].keyIdx # reqs[k].keyIdx

\* a call that used every key of a pool of two or more, wrapping around
C1_Witness ==
  /\ Returned
  /\ Len(keys) > 1
  /\ Len(reqs) = Len(keys)
  /\ callStart = Len(keys) - 1

\* C2: k < n credential-class failures followed by a success give exactly
\* k+1 requests, k rotations and the success reply as result; a call whose
\* outcomes are all credential-class failures returns only after exactly n
\* requests and n rotations, with nothing.
C2_RetryOncePerFailure ==
  /\ (pc = "api" /\ AllCred(outs)) =>
        /\ attempts = Len(outs)
        /\ rots = Len(outs)
        /\ Len(reqs) = Len(outs)
  /\ (Returned /\ outs # <<>> /\ Last(outs) = "ok" /\ AllCred(Front(outs))) =>
        /\ Len(outs) - 1 < Len(keys)
        /\ Len(reqs) = Len(outs)
        /\ rots = Len(outs) - 1
        /\ resp # Nothing
        /\ resp = reply
  /\ (Returned /\ AllCred(outs)) =>
        /\ Len(reqs) = Len(keys)
        /\ rots = Len(keys)
        /\ resp = Nothing

\* a success on the last key after every other key failed
C2_Witness ==
  /\ Returned
  /\ Len(keys) > 1
  /\ Len(outs) = Len(keys)
  /\ Last(outs) = "ok"
  /\ AllCred(Front(outs))
  /\ resp # Nothing

\* C3: a non-credential HTTP error or any other exception ends the call at
\* once with nothing: it is the last outcome of the call, it does not
\* rotate, and on the first attempt it gives one request and the cursor
\* where the call found it.
C3_FailFast ==
  /\ InCall =>
        \A j \in 1..Len(outs) :
           outs[j] \in {"http", "exc"} => (j = Len(outs) /\ Returned)
  /\ (Returned /\ outs # <<>> /\ Last(outs) \in {"http", "exc"}) =>
        /\ resp = Nothing
        /\ Len(reqs) = Len(outs)
        /\ rots = Len(outs) - 1
        /\ idx = (callStart + (Len(outs) - 1)) % Len(keys)
        /\ (Len(outs) = 1 => (idx = callStart /\ Len(reqs) = 1 /\ rots = 0))

\* a non-credential HTTP error on the first attempt, pool of two or more
C3_Witness ==
  /\ Returned
  /\ Len(keys) > 1
  /\ outs = <<"http">>
  /\ idx = callStart

\* C4: once the pool is constructed the key list is non-empty and idx is a
\* valid position in it.
C4_PoolValid ==
  pc \notin {"load", "exited"} =>
    /\ Len(keys) >= 1
    /\ idx \in 0..(Len(keys) - 1)

\* a later page of a pagination, after a rotation, cursor on the last key
C4_Witness ==
  /\ pc = "search_resp"
  /\ Len(fetched) >= 1
  /\ rots >= 1
  /\ Len(keys) > 1
  /\ idx = Len(keys) - 1

\* the indices that got a credential-class failure in the current call
FailedIdx == { reqs[j].keyIdx : j \in { k \in 1..Len(outs) : outs[k] = "cred" } }

\* C5 as claimed: when a call returns, no key that got a credential-class
\* failure in it is the current key.
C5_FailedNeverCurrent ==
  Returned => idx \notin FailedIdx

\* C5: when a call that did not exhaust the pool returns, no key that got a
\* credential-class failure in it is the current key, and the cursor stays
\* there until the next call issues its first request.
C5_FailedSkippedUnlessExhausted ==
  /\ [](Returned /\ rots < Len(keys) => idx \notin FailedIdx)
  /\ [][pc \notin {"api", "probe"} => idx' = idx]_vars

\* a call that failed on one key and then ended on another
C5_Witness ==
  /\ Returned
  /\ rots >= 1
  /\ rots < Len(keys)
  /\ FailedIdx # {}
  /\ idx \notin FailedIdx

RECURSIVE Flatten(_)
Flatten(pages) ==
  IF pages = <<>> THEN <<>> ELSE Head(pages) \o Flatten(Tail(pages))

RECURSIVE SumLen(_)
SumLen(pages) ==
  IF pages = <<>> THEN 0 ELSE Len(Head(pages)) + SumLen(Tail(pages))

\* one entry per item, none left out
AllEntries(items) == [k \in 1..Len(items) |-> Entry(items[k])]

HasVideoId(it) == it.videoId # None

\* one entry per item that carries a videoId, in item order
KeptEntries(items) == AllEntries(SelectSeq(items, HasVideoId))

\* C6 as claimed: when the call for page k+1 returns nothing, the paginator
\* returns every item of pages 1..k, in page order, none dropped.
C6_PartialKeepsEveryItem ==
  /\ (pc = "search_ret" /\ resp = Nothing) => all_items = Flatten(fetched)
  /\ (pc = "chan_ret" /\ resp = Nothing) =>
        videos = AllEntries(Flatten(fetched))

\* C6: when the call for page k+1 returns nothing the paginator issues no
\* further request and returns, in page order and without duplicates, every
\* item of pages 1..k (search_youtube_all), or the entry of every item of
\* pages 1..k that carries a videoId (fetch_all_channel_videos).
C6_PartialKeepsFetched ==
  /\ []((pc = "search_ret" /\ resp = Nothing) => all_items = Flatten(fetched))
  /\ []((pc = "chan_ret" /\ resp = Nothing) =>
          videos = KeptEntries(Flatten(fetched)))
  /\ [][(pc \in {"search_resp", "chan_resp"} /\ resp = Nothing) =>
          /\ pc' \in {"search_ret", "chan_ret"}
          /\ all_items' = all_items
          /\ videos' = videos
          /\ reqs' = reqs]_vars

\* the third page of a channel pagination failed after a full page and a
\* short page with one item without videoId
C6_Witness ==
  /\ pc = "chan_ret"
  /\ resp = Nothing
  /\ fetched = <<Page50, Page13>>
  /\ Len(videos) = 62

\* C7: when every page call succeeds and the last page has no token,
\* search_youtube_all returns the pages' items concatenated in page order,
\* so as many items as the pages hold together (50 + 50 + 13 = 113),
\* whatever total the remote reported.
C7_FullPagination ==
  (pc = "search_ret" /\ resp # Nothing) =>
    /\ page_token = None
    /\ resp[1].nextPageToken = None
    /\ all_items = Flatten(fetched)
    /\ Len(all_items) = SumLen(fetched)
    /\ (fetched = <<Page50, Page50, Page13>> => Len(all_items) = 113)

\* pages of 50, 50 and 13 items, total reported as 7
C7_Witness ==
  /\ pc = "search_ret"
  /\ resp # Nothing
  /\ fetched = <<Page50, Page50, Page13>>
  /\ Len(all_items) = 113
  /\ total_reported = "7"

\* C8: every rotate() moves the cursor one position forward modulo n and
\* leaves the key list alone, so after r rotations the cursor is
\* (start + r) mod n, back at start after every n-th, and never moves in a
\* pool of one.
C8_RotateCyclic ==
  /\ [](pc = "rotate" =>
          /\ idx = (callStart + rots) % Len(keys)
          /\ (rots % Len(keys) = 0 => idx = callStart)
          /\ (Len(keys) = 1 => idx = callStart))
  /\ [][pc = "rotate" =>
          /\ idx' = (idx + 1) % Len(keys)
          /\ keys' = keys]_vars

\* n rotations on a pool of two or more that started on its last key
C8_Witness ==
  /\ pc = "rotate"
  /\ Len(keys) > 1
  /\ callStart = Len(keys) - 1
  /\ rots = Len(keys)
  /\ idx = callStart

AnyActive == \E j \in 1..Len(probeLog) : probeLog[j] = "Active"

FirstActive ==
  CHOOSE j \in 1..Len(probeLog) :
    /\ probeLog[j] = "Active"
    /\ \A k \in 1..(j - 1) : probeLog[k] # "Active"

\* C9: after the probe, if some key was active, idx is the smallest index
\* whose probe succeeded; a key whose probe failed is not chosen.
C9_StartsOnFirstActive ==
  (pc = "probed" /\ AnyActive) =>
    /\ idx = FirstActive - 1
    /\ probeLog[idx + 1] = "Active"

\* the only active key is the last one, after keys that failed
C9_Witness ==
  /\ pc = "probed"
  /\ Len(keys) > 1
  /\ \A j \in 1..(Len(keys) - 1) : probeLog[j] # "Active"
  /\ probeLog[Len(keys)] = "Active"
  /\ idx = Len(keys) - 1

\* C10: when no probe call succeeds, whatever the failures were, the probe
\* selects no index and leaves idx as the constructor set it, and the
\* program goes on: check_key_quotas returns, the menu is entered, and from
\* the menu api_call can be called and can issue requests.
C10_NoActiveIsAdvisory ==
  /\ []((pc = "probed" /\ ~AnyActive) =>
          /\ first_valid = Nothing
          /\ idx = 0
          /\ ENABLED EnterMenu)
  /\ [][(pc = "probe" /\ i = Len(keys) /\ ~AnyActive) =>
          /\ pc' = "probed"
          /\ idx' = idx
          /\ keys' = keys]_vars
  /\ [](pc = "menu" =>
          /\ ENABLED StartSingle
          /\ ENABLED StartSearch
          /\ ENABLED StartChannel)
  /\ []((pc = "api" /\ attempts = 0) =>
          /\ ENABLED ApiHttpError
          /\ ENABLED ApiException)

\* the probe of a pool of two or more ended with no active key, the last
\* key having failed with a status that is not a quota or key status
C10_Witness ==
  /\ pc = "probed"
  /\ Len(keys) > 1
  /\ ~AnyActive
  /\ Last(probeLog) \in {"HTTP", "Error"}
  /\ first_valid = Nothing
  /\ idx = 0

(* ---------------------------------------------------------------------- *)
(* The total-count estimate                                                *)
(* ---------------------------------------------------------------------- *)

\* search_youtube_all is running (its call, its loop body, or its return)
InSearch == caller = "search" /\ pc \in {"api", "search_resp", "search_ret"}

\* fetch_all_channel_videos is running
InChannel == caller = "channel" /\ pc \in {"api", "chan_resp", "chan_ret"}

InPagination == InSearch \/ InChannel

\* C11: during one search pagination the total-count estimate is unset until
\* the first successful page has been taken, and from then on it is the value
\* reported on page one ('?' if page one reported none), whatever later pages
\* report and however many items are collected.
C11_TotalCapturedOnce ==
  InSearch =>
    /\ fetched = <<>> => total_reported = None
    /\ fetched # <<>> =>
         total_reported = (IF first_total = Absent THEN "?" ELSE first_total)

\* three pages taken, page one reported "7", the last page reported nothing
C11_Witness ==
  /\ pc = "search_ret"
  /\ Len(fetched) = 3
  /\ first_total = "7"
  /\ total_reported = "7"
  /\ resp # Nothing
  /\ resp[1].totalResults = Absent
  /\ Len(all_items) = 113

(* ---------------------------------------------------------------------- *)
(* The cursor when api_call returns                                        *)
(* ---------------------------------------------------------------------- *)

\* number of credential-class failures seen in the current call
CredFailures == Cardinality({ j \in 1..Len(outs) : outs[j] = "cred" })

\* C14: when an api_call returns, the cursor is (start + f) mod n, f being
\* the number of credential-class failures of the call; a call that succeeds
\* at once leaves the cursor where it was, a call that succeeds after k < n
\* failures leaves it on the key that succeeded, and a call that exhausts the
\* pool leaves it back on the start key, which failed first.
C14_CursorOnReturn ==
  Returned =>
    /\ idx = (callStart + CredFailures) % Len(keys)
    /\ outs = <<"ok">> => idx = callStart
    /\ (outs # <<>> /\ Last(outs) = "ok") =>
         /\ CredFailures = Len(outs) - 1
         /\ CredFailures < Len(keys)
         /\ idx = Last(reqs).keyIdx
    /\ CredFailures = Len(keys) =>
         /\ idx = callStart
         /\ reqs[1].keyIdx = callStart
         /\ outs[1] = "cred"
         /\ resp = Nothing

\* a call over two keys that started on the second key and exhausted the pool
C14_Witness ==
  /\ Returned
  /\ Len(keys) = 2
  /\ callStart = 1
  /\ CredFailures = 2
  /\ idx = 1

(* ---------------------------------------------------------------------- *)
(* The requests of one paginated call                                      *)
(* ---------------------------------------------------------------------- *)

\* the parameters the running paginator binds into its request builder
BoundParams == IF caller = "search" THEN SearchParams(query)
               ELSE ChannelParams(query)

\* C15: in one api_call made by a paginator every attempt carries the
\* paginator's current token and its query parameters, the attempts differ
\* only in the key, and a page that is returned is the page of that token.
C15_SameRequestAcrossRotation ==
  (InPagination /\ InCall) =>
    /\ pt = page_token
    /\ params = BoundParams
    /\ \A j \in 1..Len(reqs) :
         /\ reqs[j].pageToken = page_token
         /\ reqs[j].params = BoundParams
         /\ reqs[j].developerKey = key(keys, reqs[j].keyIdx)
    /\ \A j, k \in 1..Len(reqs) : j # k => reqs[j].keyIdx # reqs[k].keyIdx
    /\ InSearch => all_items = Flatten(fetched)

\* the second page of a search is returned by the second key after a rotation
C15_Witness ==
  /\ pc = "search_resp"
  /\ caller = "search"
  /\ Len(fetched) = 1
  /\ page_token \in Tokens
  /\ rots = 1
  /\ Len(reqs) = 2
  /\ resp # Nothing

(* ---------------------------------------------------------------------- *)
(* The token chain of a pagination                                         *)
(* ---------------------------------------------------------------------- *)

\* the paginator has stopped and is about to return
Stopped == pc \in {"search_ret", "chan_ret"}

\* C16: the requests for the first page carry no token; the requests for a
\* later page carry the token of the latest page taken; a request is issued
\* after a page only if that page carried a token, and the paginator stops
\* only on a call that returned nothing or a page without a token.
C16_TokenChain ==
  /\ (InPagination /\ InCall /\ fetched = <<>>) =>
       /\ pt = None
       /\ \A j \in 1..Len(reqs) : reqs[j].pageToken = None
  /\ (InPagination /\ InCall /\ fetched # <<>>) =>
       /\ lastToken \in Tokens
       /\ pt = lastToken
       /\ \A j \in 1..Len(reqs) : reqs[j].pageToken = lastToken
  /\ (InPagination /\ Stopped) =>
       \/ resp = Nothing
       \/ resp[1].nextPageToken = None /\ lastToken = None

\* the third page is being requested with the token of the second page
C16_Witness ==
  /\ pc = "api"
  /\ caller = "channel"
  /\ Len(fetched) = 2
  /\ lastToken = "T2"
  /\ Len(reqs) = 1
  /\ reqs[1].pageToken = "T2"

(* ---------------------------------------------------------------------- *)
(* Who moves the cursor                                                    *)
(* ---------------------------------------------------------------------- *)

\* C18 as claimed: every change of the cursor is one rotate(), a step of +1
\* modulo the pool size.
C18_OnlyRotate ==
  [][idx' # idx => /\ rots' = rots + 1
                   /\ idx' = (idx + 1) % Len(keys)]_vars

\* C18: the cursor is changed by rotate() inside api_call, one step of +1
\* modulo the pool size each time, and by check_key_quotas, which assigns it
\* the index of the first active key; nothing else changes it.
C18_RotateOrProbe ==
  [][idx' # idx =>
       \/ /\ pc = "api"
          /\ rots' = rots + 1
          /\ idx' = (idx + 1) % Len(keys)
       \/ /\ pc = "probe"
          /\ pc' = "probed"
          /\ first_valid # Nothing
          /\ idx' = first_valid[1]
          /\ rots' = rots]_vars

\* the probe has put the cursor on the second key without any rotate()
C18_Witness ==
  /\ pc = "probed"
  /\ first_valid = Some(1)
  /\ idx = 1
  /\ rots = 0

(* ---------------------------------------------------------------------- *)
(* Termination of a pagination                                             *)
(* ---------------------------------------------------------------------- *)

\* the call has returned nothing, or a page without a token
Terminal == resp = Nothing \/ resp[1].nextPageToken = None

\* C17: a paginator's api_call returns after at most len(keys) rotations;
\* the step after a call that returned nothing or a page without a token
\* stops the paginator; the step after a page with a token takes the page
\* and starts the next call, whatever the number of pages already taken; and
\* the paginator stops in no other way, so it does not stop while every
\* page carries a token and no call returns nothing.
C17_StopsExactlyOnTerminal ==
  [][/\ (InPagination /\ pc = "api") =>
          \/ Returned'
          \/ /\ pc' = "api"
             /\ attempts' = attempts + 1
             /\ attempts' <= Len(keys)
     /\ (InPagination /\ Returned /\ Terminal) => Stopped'
     /\ (InPagination /\ Returned /\ ~Terminal) =>
          /\ pc' = "api"
          /\ Len(fetched') = Len(fetched) + 1
          /\ page_token' = resp[1].nextPageToken
     /\ (InPagination /\ ~Stopped /\ Stopped') => (Returned /\ Terminal)
     /\ (InPagination /\ Stopped) => ~InPagination']_vars

\* every page the remote can give has been taken, each with a token, and
\* the paginator is requesting the next one
C17_Witness ==
  /\ InPagination
  /\ pc = "api"
  /\ Len(fetched) = MaxPages
  /\ lastToken \in Tokens
  /\ Len(reqs) = 1

(* ---------------------------------------------------------------------- *)
(* The attempt cap across pages                                            *)
(* ---------------------------------------------------------------------- *)

\* the pools of at most two keys
Pools == { ks \in KeyLists : Len(ks) <= 2 }

\* the menu loop of a program that started with a pool of at most two keys,
\* the cursor on any of them, and no page taken yet
InitPages ==
  /\ pc = "menu"
  /\ keys \in Pools
  /\ idx \in 0..(Len(keys) - 1)
  /\ i = 0
  /\ first_valid = Nothing
  /\ probeLog = <<>>
  /\ caller = None
  /\ pt = None
  /\ params = NoParams
  /\ attempts = 0
  /\ resp = Nothing
  /\ callStart = 0
  /\ reqs = <<>>
  /\ outs = <<>>
  /\ rots = 0
  /\ reply = Nothing
  /\ all_items = <<>>
  /\ videos = <<>>
  /\ page_token = None
  /\ total_reported = None
  /\ fetched = <<>>
  /\ query = None
  /\ first_total = None
  /\ lastToken = None
  /\ pagFull = TRUE
  /\ ClsIdle

\* the menu loop and everything it calls
NextPages ==
  \/ StartSearch
  \/ SearchPage
  \/ SearchReturn
  \/ StartChannel
  \/ ChannelPage
  \/ ChannelReturn
  \/ StartSingle
  \/ SingleReturn
  \/ Exit
  \/ ApiSuccess
  \/ ApiHttpError
  \/ ApiException
  \/ ApiExhausted

SpecPages == InitPages /\ [][NextPages]_vars

\* C19: the call for each further page of a pagination starts with attempts
\* at 0, no request issued yet, and the cursor where the previous page's call
\* left it; so each page's call may again issue up to len(keys) requests
\* and try every key, whatever happened to that key on an earlier page.
C19_CapPerCall ==
  [][(InPagination /\ Returned /\ pc' = "api") =>
       /\ attempts' = 0
       /\ rots' = 0
       /\ reqs' = <<>>
       /\ idx' = idx
       /\ callStart' = idx
       /\ \A k \in 0..(Len(keys) - 1) :
            \E j \in 0..(Len(keys) - 1) : (callStart' + j) % Len(keys) = k]_vars

\* two pages over two keys took four requests: the first page failed on one
\* key and came from the other, the second page failed on that other key and
\* came from the key that had failed on the first page
C19_Witness ==
  /\ InPagination
  /\ Returned
  /\ Len(keys) = 2
  /\ Len(fetched) = 1
  /\ pagFull
  /\ outs = <<"cred", "ok">>
  /\ Len(reqs) = 2
  /\ resp # Nothing

(* ---------------------------------------------------------------------- *)
(* parse_iso_duration                                                      *)
(* ---------------------------------------------------------------------- *)

\* the longest encoding that is enumerated
MaxIso == 5

Digits == {"0", "1", "2", "3", "4", "5", "6", "7", "8", "9"}

DigitVal(c) ==
  CASE c = "0" -> 0 [] c = "1" -> 1 [] c = "2" -> 2 [] c = "3" -> 3
    [] c = "4" -> 4 [] c = "5" -> 5 [] c = "6" -> 6 [] c = "7" -> 7
    [] c = "8" -> 8 [] c = "9" -> 9

\* int(m.group(k) or 0): the value of a run of digits, 0 for no group
RECURSIVE int(_)
int(ds) ==
  IF ds = <<>> THEN 0
  ELSE int(SubSeq(ds, 1, Len(ds) - 1)) * 10 + DigitVal(ds[Len(ds)])

\* \d+ at position p: the length of the longest run of digits from p on
RECURSIVE DigitRun(_, _)
DigitRun(s, p) ==
  IF p <= Len(s) /\ s[p] \in Digits THEN 1 + DigitRun(s, p + 1) ELSE 0

\* (?:(\d+)L)? at position p: the digits of the group and where the match
\* goes on; no digits and the same position when the group does not match
Group(s, p, L) ==
  LET n == DigitRun(s, p) IN
  IF n >= 1 /\ p + n <= Len(s) /\ s[p + n] = L
  THEN [digits |-> SubSeq(s, p, p + n - 1), next |-> p + n + 1]
  ELSE [digits |-> <<>>, next |-> p]

\* re.match(r'PT(?:(\d+)H)?(?:(\d+)M)?(?:(\d+)S)?', s): a match of a
\* prefix of s, or nothing
match(s) ==
  IF Len(s) >= 2 /\ s[1] = "P" /\ s[2] = "T"
  THEN LET gH == Group(s, 3, "H")
           gM == Group(s, gH.next, "M")
           gS == Group(s, gM.next, "S")
       IN  Some([g1 |-> gH.digits, g2 |-> gM.digits, g3 |-> gS.digits,
                 end |-> gS.next - 1])
  ELSE Nothing

\* "iso or ''" : None and the empty string are the empty string
OrEmpty(x) == IF x = Nothing THEN <<>> ELSE x[1]

parse_iso_duration(x) ==
  LET m == match(OrEmpty(x)) IN
  IF m = Nothing THEN 0
  ELSE int(m[1].g1) * 3600 + int(m[1].g2) * 60 + int(m[1].g3)

\* the characters of the enumerated encodings
Alphabet == {"P", "T", "H", "M", "S", "1", "X"}

PT1H2M3S == <<"P", "T", "1", "H", "2", "M", "3", "S">>
PT45S == <<"P", "T", "4", "5", "S">>
PT10M == <<"P", "T", "1", "0", "M">>

\* None, or a string: the fixtures and every string of up to MaxIso
\* characters of the alphabet
Encodings ==
  {Nothing} \cup
  { Some(s) : s \in {PT1H2M3S, PT45S, PT10M} \cup
                     UNION { [1..n -> Alphabet] : n \in 0..MaxIso } }

ProbeIdle == i = 0 /\ first_valid = Nothing /\ probeLog = <<>>

CallIdle ==
  /\ caller = None
  /\ pt = None
  /\ params = NoParams
  /\ attempts = 0
  /\ resp = Nothing
  /\ callStart = 0
  /\ reqs = <<>>
  /\ outs = <<>>
  /\ rots = 0
  /\ reply = Nothing

PageIdle ==
  /\ all_items = <<>>
  /\ videos = <<>>
  /\ page_token = None
  /\ total_reported = None
  /\ fetched = <<>>
  /\ query = None
  /\ first_total = None
  /\ lastToken = None
  /\ pagFull = FALSE

\* a call parse_iso_duration(iso) is about to be made
InitParse ==
  /\ pc = "parse"
  /\ keys = <<>>
  /\ idx = 0
  /\ ProbeIdle
  /\ CallIdle
  /\ PageIdle
  /\ all_vids = <<>>
  /\ longs = <<>>
  /\ shorts = <<>>
  /\ replied = <<>>
  /\ iso \in Encodings
  /\ secs = 0

\* secs = parse_iso_duration(iso)
Parse ==
  /\ pc = "parse"
  /\ secs' = parse_iso_duration(iso)
  /\ pc' = "parsed"
  /\ UNCHANGED <<keys, idx, probeVars, callVars, pageVars, all_vids, longs,
                 shorts, replied, iso>>

SpecParse == InitParse /\ [][Parse]_vars

\* seg is empty, or one or more digits and the letter L
IsComponent(seg, L) ==
  \/ seg = <<>>
  \/ /\ Len(seg) >= 2
     /\ seg[Len(seg)] = L
     /\ \A k \in 1..(Len(seg) - 1) : seg[k] \in Digits

\* the number a component carries, 0 for an absent component
ComponentVal(seg) ==
  IF seg = <<>> THEN 0 ELSE int(SubSeq(seg, 1, Len(seg) - 1))

\* s is 'PT', then an H component up to a, an M component up to b and an
\* S component up to the end of s
SplitsAt(s, a, b) ==
  /\ Len(s) >= 2
  /\ s[1] = "P"
  /\ s[2] = "T"
  /\ a <= b
  /\ IsComponent(SubSeq(s, 3, a), "H")
  /\ IsComponent(SubSeq(s, a + 1, b), "M")
  /\ IsComponent(SubSeq(s, b + 1, Len(s)), "S")

WellFormed(s) == \E a, b \in 2..Len(s) : SplitsAt(s, a, b)

\* C13: parse_iso_duration returns hours*3600 + minutes*60 + seconds for
\* 'PT' followed by optional H, M and S components in that order and nothing
\* else (3723 for PT1H2M3S, 45 for PT45S, 600 for PT10M), and 0 for every
\* other argument: None, the empty string, any malformed encoding.
C13_ParseDuration ==
  pc = "parsed" =>
    LET s == OrEmpty(iso) IN
    /\ s = PT1H2M3S => secs = 3723
    /\ s = PT45S => secs = 45
    /\ s = PT10M => secs = 600
    /\ WellFormed(s) =>
         \E a, b \in 2..Len(s) :
           /\ SplitsAt(s, a, b)
           /\ secs = ComponentVal(SubSeq(s, 3, a)) * 3600
                     + ComponentVal(SubSeq(s, a + 1, b)) * 60
                     + ComponentVal(SubSeq(s, b + 1, Len(s)))
    /\ ~WellFormed(s) => secs = 0

\* the part of C13 that holds: the value of every well-formed encoding and
\* of the fixtures, and 0 for None, for the empty string and for every string
\* that does not start with 'PT'
C13_WellFormedPart ==
  pc = "parsed" =>
    LET s == OrEmpty(iso) IN
    /\ s = PT1H2M3S => secs = 3723
    /\ s = PT45S => secs = 45
    /\ s = PT10M => secs = 600
    /\ WellFormed(s) =>
         \E a, b \in 2..Len(s) :
           /\ SplitsAt(s, a, b)
           /\ secs = ComponentVal(SubSeq(s, 3, a)) * 3600
                     + ComponentVal(SubSeq(s, a + 1, b)) * 60
                     + ComponentVal(SubSeq(s, b + 1, Len(s)))
    /\ (Len(s) < 2 \/ s[1] # "P" \/ s[2] # "T") => secs = 0

(* ---------------------------------------------------------------------- *)
(* classify_videos                                                         *)
(* ---------------------------------------------------------------------- *)

\* "for i in range(0, len(videos), 50)": the ids asked for in one call
ChunkSize == 50

\* an entry of the list fetch_all_channel_videos returns
Video(id) == [videoId |-> id, title |-> "t", publishedAt |-> ""]

\* the lists classify_videos is called with: four videos, one video, and
\* one video more than a chunk holds
Catalogs == { [k \in 1..4 |-> Video(k)],
              <<Video(3)>>,
              [k \in 1..(ChunkSize + 1) |-> Video(k)] }

\* chunk = videos[i:i + 50]
Chunk(vs, j) ==
  SubSeq(vs, j + 1, IF j + ChunkSize < Len(vs) THEN j + ChunkSize ELSE Len(vs))

\* the ids that ids_str joins
ChunkIds(vs, j) == [k \in 1..Len(Chunk(vs, j)) |-> Chunk(vs, j)[k].videoId]

\* yt.videos().list(part="contentDetails,snippet", id=ids_str)
VideosParams(ids) == [endpoint |-> "videos.list",
                      part |-> "contentDetails,snippet", id |-> ids]

PT0S == <<"P", "T", "0", "S">>

\* it.get('contentDetails', {}).get('duration', 'PT0S')
DurationOf(it) == IF it.duration = Nothing THEN PT0S ELSE it.duration[1]

\* dict(videoId=it['id'], title=it['snippet']['title'], seconds=secs)
ClsEntry(it) == [videoId |-> it.id, title |-> it.title,
                 seconds |-> parse_iso_duration(Some(DurationOf(it)))]

\* a test that takes a video of exactly 60 s for a long one
IsShort_strict(s) == s < 60

\* "if secs <= 60"
IsShort(s) == s <= 60

\* "for it in resp.get('items', []): ... shorts.append / longs.append"
RECURSIVE ClassifyItems(_, _, _)
ClassifyItems(items, L, S) ==
  IF items = <<>> THEN [longs |-> L, shorts |-> S]
  ELSE LET entry == ClsEntry(Head(items)) IN
       IF IsShort(entry.seconds)
       THEN ClassifyItems(Tail(items), L, Append(S, entry))
       ELSE ClassifyItems(Tail(items), Append(L, entry), S)

\* mode_parse has fetched all_vids and classify_videos has set longs, shorts
InitClassify ==
  /\ pc = "classify"
  /\ keys \in Pools
  /\ idx \in 0..(Len(keys) - 1)
  /\ ProbeIdle
  /\ CallIdle
  /\ PageIdle
  /\ all_vids \in Catalogs
  /\ longs = <<>>
  /\ shorts = <<>>
  /\ replied = <<>>
  /\ iso = Nothing
  /\ secs = 0

\* the head of the for loop: the call for the next chunk, or the return
ClassifyNext ==
  /\ pc = "classify"
  /\ IF i < Len(all_vids)
     THEN BeginCall("classify", None, VideosParams(ChunkIds(all_vids, i)))
     ELSE /\ pc' = "classified"
          /\ UNCHANGED callVars
  /\ UNCHANGED <<keys, idx, probeVars, pageVars, clsVars>>

\* the loop body after "resp = api_call(...)"
ClassifyChunk ==
  /\ pc = "classify_resp"
  /\ IF resp = Nothing
     THEN UNCHANGED <<longs, shorts, replied>>
     ELSE LET out == ClassifyItems(resp[1].items, longs, shorts) IN
          /\ longs' = out.longs
          /\ shorts' = out.shorts
          /\ replied' = replied \o resp[1].items
  /\ i' = i + ChunkSize
  /\ pc' = "classify"
  /\ EndCall
  /\ UNCHANGED <<keys, idx, first_valid, probeLog, pageVars, all_vids, iso,
                 secs>>

NextClassify ==
  \/ ClassifyNext
  \/ ClassifyChunk
  \/ ApiSuccess
  \/ ApiHttpError
  \/ ApiException
  \/ ApiExhausted

SpecClassify == InitClassify /\ [][NextClassify]_vars

\* the seconds the remote holds for a video
RemoteSeconds(id) ==
  CASE id % 4 = 1 -> 30
    [] id % 4 = 2 -> 90
    [] id % 4 = 3 -> 61
    [] id % 4 = 0 -> 60

\* the seconds of a returned item, 0 when it carries no duration
ItemSeconds(it) == IF it.duration = Nothing THEN 0 ELSE RemoteSeconds(it.id)

IdsOf(entries) == [k \in 1..Len(entries) |-> entries[k].videoId]

ItemIds(items) == [k \in 1..Len(items) |-> items[k].id]

SecondsOf(entries) == [k \in 1..Len(entries) |-> entries[k].seconds]

IsLongId(id) == RemoteSeconds(id) > 60

IsShortId(id) == RemoteSeconds(id) <= 60

IsLongItem(it) == ItemSeconds(it) > 60

IsShortItem(it) == ItemSeconds(it) <= 60

\* the entry an item is expected to give
ExpectedEntries(items) ==
  [k \in 1..Len(items) |->
     [videoId |-> items[k].id, title |-> items[k].title,
      seconds |-> ItemSeconds(items[k])]]

\* C12 as claimed: when classify_videos returns, the longs are the videos it
\* was given that last more than 60 s and the shorts are those that last at
\* most 60 s, each in the order of the input, so that every video given is in
\* exactly one of the two.
C12_PartitionsInput ==
  pc = "classified" =>
    /\ IdsOf(longs) = SelectSeq(IdsOf(all_vids), IsLongId)
    /\ IdsOf(shorts) = SelectSeq(IdsOf(all_vids), IsShortId)

\* C12: between chunks and on return, the longs are the items the remote
\* returned so far that last more than 60 s and the shorts are those that
\* last at most 60 s (60 is short, 61 is long, no duration counts as 0), each
\* in the order they were returned; every returned item is in exactly one of
\* the two, and a video of a chunk whose call returned nothing, or that the
\* remote left out, is in neither.
C12_PartitionsReplies ==
  pc \in {"classify", "classified"} =>
    /\ longs = ExpectedEntries(SelectSeq(replied, IsLongItem))
    /\ shorts = ExpectedEntries(SelectSeq(replied, IsShortItem))
    /\ Len(longs) + Len(shorts) = Len(replied)
    /\ \A k \in 1..Len(longs) : longs[k].seconds > 60
    /\ \A k \in 1..Len(shorts) : shorts[k].seconds <= 60
    /\ \A k \in 1..Len(all_vids) :
         (\A j \in 1..Len(replied) : replied[j].id # all_vids[k].videoId)
           => /\ \A j \in 1..Len(longs) : longs[j].videoId # all_vids[k].videoId
              /\ \A j \in 1..Len(shorts) : shorts[j].videoId # all_vids[k].videoId

\* four videos of 30, 90, 61 and 60 s, returned in the order asked
C12_Witness ==
  /\ pc = "classified"
  /\ Len(all_vids) = 4
  /\ ItemIds(replied) = IdsOf(all_vids)
  /\ SecondsOf(longs) = <<90, 61>>
  /\ SecondsOf(shorts) = <<30, 60>>
  /\ IdsOf(longs) = <<2, 3>>
  /\ IdsOf(shorts) = <<1, 4>>

\* the second chunk was answered, the first was not: fifty videos are lost
C12_LostChunk ==
  /\ pc = "classified"
  /\ Len(all_vids) = ChunkSize + 1
  /\ ItemIds(replied) = <<ChunkSize + 1>>
  /\ Len(longs) + Len(shorts) = 1

====
